---------------------------- MODULE Spec2Model ----------------------------
(***************************************************************************)
(* Model of app.py (Sistema de Rendimentos): the per-user ledger files     *)
(* (GerenciadorDados), the validator and statistics (AnalisadorDados) and  *)
(* the handlers of the main screen that add and delete records             *)
(* (formulario_adicionar, gerenciar_dados).                                *)
(*                                                                         *)
(* A DataFrame is a record [cols, rows]: the set of its column names and   *)
(* the sequence of its rows.  A cell is one of                             *)
(*   Str(s)  a Python str,        Num(n)  a number (amounts in centavos),  *)
(*   Ts(d)   a pandas Timestamp (d is the date as yyyymmdd),               *)
(*   NaN     a missing value (NaN / NaT).                                  *)
(* A CSV file holds text only: writing turns cells into text (to_csv) and  *)
(* reading turns text back into cells (read_csv).                          *)
(***************************************************************************)
EXTENDS Integers, Sequences, FiniteSets, TLC

VARIABLES
    fs,        \* the file system: path -> file
    last,      \* the operation that produced this state, its input and result
    cache,     \* per session: the DataFrame its latest script run loaded (df)
    esperado,  \* per user: the records added and not deleted, in insertion order
    wr,        \* a salvar_dados whose to_csv is in progress (file open for writing)
    entrada,   \* the DataFrame handed to the pure functions
    saida,     \* what the pure functions returned, or the messages shown
    session_state,  \* per session: st.session_state, key -> value
    usuarios   \* the user store (usuarios.json): user name -> record

vars == <<fs, last, cache, esperado, wr, entrada, saida, session_state, usuarios>>

---------------------------------------------------------------------------
(* Configuration                                                           *)

PASTA_DADOS == "dados_usuarios"

\* Registered user names (each passes validar_nome_usuario).
Usuarios == {"ana", "bob"}

ColunasNecessarias == {"Data", "Valor", "Categoria", "Descricao"}

---------------------------------------------------------------------------
(* Cells                                                                   *)

Str(s) == [k |-> "str", s |-> s, n |-> 0]
Num(n) == [k |-> "num", s |-> "", n |-> n]
Ts(d)  == [k |-> "ts",  s |-> "", n |-> d]
NaN    == [k |-> "nan", s |-> "", n |-> 0]
\* A datetime.date, as st.date_input returns it.
Date(d) == [k |-> "date", s |-> "", n |-> d]

\* Calendar dates of the model, as yyyymmdd, with their ISO text.
Dias == {20240105, 20240120, 20240203}

DataTexto(d) ==
    CASE d = 20240105 -> "2024-01-05"
      [] d = 20240120 -> "2024-01-20"
      [] d = 20240203 -> "2024-02-03"
      [] OTHER        -> "NaT"

\* Amounts of the model, in centavos, with the text to_csv writes for the float.
Valores == {-500, 0, 10, 20, 30, 5000, 10000}

ValorTexto(n) ==
    CASE n = -500 -> "-5.0"
      [] n = 0    -> "0.0"
      [] n = 10   -> "0.1"
      [] n = 20   -> "0.2"
      [] n = 30   -> "0.3"
      [] n = 5000 -> "50.0"
      [] n = 10000 -> "100.0"
      [] OTHER    -> ToString(n)

\* Text that read_csv takes for a missing value (its default na_values).
NaValues == {"", "NA", "N/A", "n/a", "NaN", "nan", "null", "NULL", "None", "<NA>", "#N/A"}

\* pd.to_datetime(cell, errors='coerce')
ToDatetimeTextOnly(c) ==
    IF c.k = "str" /\ \E d \in Dias : DataTexto(d) = c.s
    THEN Ts(CHOOSE d \in Dias : DataTexto(d) = c.s)
    ELSE NaN

ToDatetime(c) ==
    CASE c.k = "ts"   -> c
      [] c.k = "date" -> Ts(c.n)
      [] c.k = "str" -> IF \E d \in Dias : DataTexto(d) = c.s
                        THEN Ts(CHOOSE d \in Dias : DataTexto(d) = c.s)
                        ELSE NaN
      [] OTHER       -> NaN

\* pd.to_numeric(cell, errors='coerce')
ToNumeric(c) ==
    CASE c.k = "num" -> c
      [] c.k = "str" -> IF \E n \in Valores : ValorTexto(n) = c.s
                        THEN Num(CHOOSE n \in Valores : ValorTexto(n) = c.s)
                        ELSE NaN
      [] OTHER       -> NaN

\* The text to_csv writes for a cell: a missing value and '' are both written empty.
CelulaTexto(c) ==
    CASE c.k = "str" -> c.s
      [] c.k = "num" -> ValorTexto(c.n)
      [] c.k = "ts"  -> DataTexto(c.n)
      [] OTHER       -> ""

\* The cell read_csv makes of a field's text: an empty field (or another of the
\* na_values) is a missing value; a number is parsed; anything else stays a str.
TextoCelula(t) ==
    IF t \in NaValues THEN NaN
    ELSE IF \E n \in Valores : ValorTexto(n) = t
         THEN Num(CHOOSE n \in Valores : ValorTexto(n) = t)
         ELSE Str(t)

---------------------------------------------------------------------------
(* DataFrames                                                              *)

Linha(d, v, c, x) == [Data |-> d, Valor |-> v, Categoria |-> c, Descricao |-> x]

DataFrame(cols, rows) == [cols |-> cols, rows |-> rows]

\* pd.DataFrame(columns=['Data', 'Valor', 'Categoria', 'Descrição'])
DataFrameVazio == DataFrame(ColunasNecessarias, <<>>)

\* df.empty
Empty(df) == df.cols = {} \/ df.rows = <<>>

RECURSIVE SelectRows(_, _)
\* The rows of sequence rs at the positions in set keep, in order.
SelectRows(rs, keep) ==
    IF rs = <<>> THEN <<>>
    ELSE LET n == Len(rs)
             front == SelectRows(SubSeq(rs, 1, n - 1), keep)
         IN  IF n \in keep THEN Append(front, rs[n]) ELSE front

\* df.dropna(): rows with a missing value in any column are dropped.
DropNaTodas(rows) ==
    SelectRows(rows, {i \in 1..Len(rows) :
                         \A c \in ColunasNecessarias : rows[i][c].k # "nan"})

\* df.dropna(subset=['Data', 'Valor'])
DropNa(rows) ==
    SelectRows(rows, {i \in 1..Len(rows) : rows[i].Data.k # "nan" /\ rows[i].Valor.k # "nan"})

\* df['Data'] = pd.to_datetime(...); df['Valor'] = pd.to_numeric(...)
ConverterTipos(rows) ==
    [i \in 1..Len(rows) |->
        [rows[i] EXCEPT !.Data = ToDatetime(@), !.Valor = ToNumeric(@)]]


---------------------------------------------------------------------------
(* Files and paths                                                         *)

\* os.path.join: a path is the sequence of its components.
OsPathJoin(a, b, c) == <<a, b, c>>

GetCaminhoRendimentosGlobal(nome_usuario) == <<PASTA_DADOS, "rendimentos.csv">>

GetCaminhoRendimentos(nome_usuario) ==
    OsPathJoin(PASTA_DADOS, nome_usuario, "rendimentos.csv")

\* datetime.now().strftime("%Y%m%d_%H%M%S") at the time of a backup.
Timestamps == {"20240301_120000"}

\* caminho_original.replace('.csv', f'_backup_{timestamp}.csv'): a user name
\* holds no '.', so only the file name changes.
CaminhoBackup(nome_usuario, timestamp) ==
    LET caminho_original == GetCaminhoRendimentos(nome_usuario)
        n == Len(caminho_original)
    IN  [caminho_original EXCEPT ![n] = "rendimentos_backup_" \o timestamp \o ".csv"]

\* A file is text: zero bytes (just opened for writing), or a header line and
\* one line of fields per row.  The file system maps the existing paths to files.
ArquivoZero == [zero |-> TRUE, cols |-> {}, rows |-> <<>>]
ArquivoCsv(cols, rows) == [zero |-> FALSE, cols |-> cols, rows |-> rows]

\* os.path.exists(caminho)
Exists(f, caminho) == caminho \in DOMAIN f

\* The file system f with `conteudo` at `caminho` (created if missing).
Gravar(f, caminho, conteudo) ==
    [p \in (DOMAIN f) \cup {caminho} |-> IF p = caminho THEN conteudo ELSE f[p]]

\* df.to_csv(caminho, index=False): the lines written for the rows of df.
ToCsvRows(df) ==
    [i \in 1..Len(df.rows) |->
        [c \in ColunasNecessarias |->
            IF c \in df.cols THEN CelulaTexto(df.rows[i][c]) ELSE ""]]

ToCsv(df) == ArquivoCsv(df.cols, ToCsvRows(df))

\* pd.read_csv(caminho) of a file that is not zero bytes long.
ReadCsv(arq) ==
    DataFrame(arq.cols,
              [i \in 1..Len(arq.rows) |->
                  [c \in ColunasNecessarias |-> TextoCelula(arq.rows[i][c])]])

---------------------------------------------------------------------------
(* GerenciadorDados                                                        *)

\* carregar_dados(nome_usuario), reading file system f.  read_csv raises on a
\* zero-byte file and df['Data'] on a missing column; both are caught.
CarregarDados(f, nome_usuario) ==
    LET caminho == GetCaminhoRendimentos(nome_usuario)
    IN  IF ~Exists(f, caminho) \/ f[caminho].zero
        THEN DataFrameVazio
        ELSE LET df == ReadCsv(f[caminho])
             IN  IF Empty(df) \/ ~({"Data", "Valor"} \subseteq df.cols)
                 THEN DataFrameVazio
                 ELSE DataFrame(df.cols, DropNa(ConverterTipos(df.rows)))

\* "Validar e limpar dados" of salvar_dados: the DataFrame that is written.
\* Columns Data and Valor must exist (checked by SalvarOk).
LimparParaSalvar(df) ==
    IF Empty(df)
    THEN DataFrameVazio
    ELSE DataFrame(df.cols, DropNa(ConverterTipos(df.rows)))

\* Whether salvar_dados(., df) returns True: it returns False when an exception
\* is raised, which df['Data'] or df['Valor'] does when the column is missing.
SalvarOk(df) == Empty(df) \/ {"Data", "Valor"} \subseteq df.cols

\* The file system after salvar_dados(nome_usuario, df).
SalvarDados(f, nome_usuario, df) ==
    IF SalvarOk(df)
    THEN Gravar(f, GetCaminhoRendimentos(nome_usuario), ToCsv(LimparParaSalvar(df)))
    ELSE f

\* Whether backup_dados(nome_usuario) returns True.
BackupOk(f, nome_usuario) ==
    LET caminho_original == GetCaminhoRendimentos(nome_usuario)
    IN  Exists(f, caminho_original) /\ ~f[caminho_original].zero

\* The file system after backup_dados(nome_usuario) at `timestamp`.
BackupDados(f, nome_usuario, timestamp) ==
    IF BackupOk(f, nome_usuario)
    THEN Gravar(f, CaminhoBackup(nome_usuario, timestamp),
                ToCsv(ReadCsv(f[GetCaminhoRendimentos(nome_usuario)])))
    ELSE f

---------------------------------------------------------------------------
(* AnalisadorDados                                                         *)

\* "Garantir que as colunas existem": a missing column is added holding ''.
GarantirColunas(df) ==
    DataFrame(df.cols \cup ColunasNecessarias,
              [i \in 1..Len(df.rows) |->
                  [c \in ColunasNecessarias |->
                      IF c \in df.cols THEN df.rows[i][c] ELSE Str("")]])

\* df[df['Valor'] >= 0]
NaoNegativos(rows) ==
    SelectRows(rows, {i \in 1..Len(rows) : rows[i].Valor.n >= 0})

\* validar_dataframe(df)
ValidarDataframe(df) ==
    IF Empty(df)
    THEN DataFrameVazio
    ELSE LET g == GarantirColunas(df)
         IN  DataFrame(g.cols, NaoNegativos(DropNa(ConverterTipos(g.rows))))

---------------------------------------------------------------------------
(* Float arithmetic and the aggregations                                   *)

\* The Valor column is float64: binary floating point, round to nearest, ties
\* to even.  The model keeps the format and narrows the significand from 53
\* bits to PrecisaoBits, so that a float is an integer number of 1/Grade.
\* With 8 bits 50, 100 and 150 are floats, as they are with 53, and 0.1 is not.
PrecisaoBits == 8

\* 0.1 has exponent -4, so its last bit is worth 2^-(PrecisaoBits + 3).
Grade == 2^(PrecisaoBits + 3)

RECURSIVE NBits(_)
\* The number of binary digits of natural v.
NBits(v) == IF v = 0 THEN 0 ELSE 1 + NBits(v \div 2)

\* The quotient num/den (num >= 0, den > 0) rounded to a multiple of den's
\* step `passo`, ties to even.
ArredDiv(num, den, passo) ==
    LET q == num \div (den * passo)
        r == num - q * den * passo
    IN  IF 2 * r > den * passo \/ (2 * r = den * passo /\ q % 2 = 1)
        THEN (q + 1) * passo
        ELSE q * passo

\* The float nearest to num/den.
ArredFrac(num, den) ==
    LET sobra == NBits(num \div den) - PrecisaoBits
    IN  ArredDiv(num, den, IF sobra > 0 THEN 2^sobra ELSE 1)

\* The float nearest to v, a number of 1/Grade of either sign.
Arred(v) == IF v >= 0 THEN ArredFrac(v, 1) ELSE 0 - ArredFrac(0 - v, 1)

\* The float of a decimal amount of n centavos (n/100 reais).
Float(n) == IF n >= 0 THEN ArredFrac(n * Grade, 100) ELSE 0 - ArredFrac((0 - n) * Grade, 100)

\* a + b and a - b of floats.
FAdd(a, b) == Arred(a + b)
FSub(a, b) == Arred(a - b)

RECURSIVE SomaDe(_, _, _)
\* Series.sum() of a short column: the floats are added from the first on.
SomaDe(xs, i, acc) ==
    IF i > Len(xs) THEN acc ELSE SomaDe(xs, i + 1, FAdd(acc, xs[i]))

Sum(xs) == SomaDe(xs, 1, 0)

RECURSIVE KahanDe(_, _, _, _)
\* The sum of a group as groupby(...).sum() computes it: compensated summation.
KahanDe(xs, i, sumx, compensation) ==
    IF i > Len(xs) THEN sumx
    ELSE LET y == FSub(xs[i], compensation)
             t == FAdd(sumx, y)
         IN  KahanDe(xs, i + 1, t, FSub(FSub(t, sumx), y))

GroupSum(xs) == KahanDe(xs, 1, 0, 0)

RECURSIVE Ordenar(_)
\* The numbers of set S in ascending order.
Ordenar(S) ==
    IF S = {} THEN <<>>
    ELSE LET m == CHOOSE x \in S : \A y \in S : x <= y
         IN  <<m>> \o Ordenar(S \ {m})

\* The Valor column of rows, as floats.
ColunaValor(rows) == [i \in 1..Len(rows) |-> Float(rows[i].Valor.n)]

\* df.groupby(chave)['Valor'].sum(), chave holding the key of each row: one
\* bucket per key, keys ascending.
GroupBySum(df, chave) ==
    LET chaves == Ordenar({chave[i] : i \in 1..Len(df.rows)})
    IN  [j \in 1..Len(chaves) |->
            [chave |-> chaves[j],
             Valor |-> GroupSum(ColunaValor(
                          SelectRows(df.rows,
                                     {i \in 1..Len(df.rows) : chave[i] = chaves[j]})))]]

\* df['Data']
ChaveDia(df) == [i \in 1..Len(df.rows) |-> df.rows[i].Data.n]

\* df['Data'].dt.to_period('M')
ChaveMes(df) == [i \in 1..Len(df.rows) |-> df.rows[i].Data.n \div 100]

\* df_temporal of analises_avancadas: the daily totals.
DfTemporal(df) == GroupBySum(df, ChaveDia(df))

\* df_mensal of tendencia_mensal: the monthly totals.
DfMensal(df) == GroupBySum(df, ChaveMes(df))

\* calcular_estatisticas(df): the count and the total (the mean, the extremes
\* and the first and last dates are not modelled).
CalcularEstatisticas(df) ==
    IF Empty(df)
    THEN [total_registros |-> 0, total_valor |-> 0]
    ELSE LET df_copy == SelectRows(df.rows,
                            {i \in 1..Len(df.rows) : ToNumeric(df.rows[i].Valor).k # "nan"})
         IN  [total_registros |-> Len(df_copy),
              total_valor |-> Sum(ColunaValor(df_copy))]

---------------------------------------------------------------------------
(* Sessions and the main screen                                            *)

\* Browser sessions, each logged in: st.session_state.usuario_atual.
Sessoes == {"s1", "s2", "s3"}

UsuarioAtual(s) == IF s = "s3" THEN "bob" ELSE "ana"

\* The DataFrame a cached-ledger implementation would use: the one the
\* session's previous script run loaded.
DfEmCache(f, s) == cache[s]

\* "Carregar e validar dados" of tela_principal: every script run of session s
\* starts by loading the ledger of its user from the store.
DfDaExecucao(f, s) == ValidarDataframe(CarregarDados(f, UsuarioAtual(s)))

\* pd.concat([df, novo_registro], ignore_index=True)
Concat(df, novo) ==
    LET fill(d) == [i \in 1..Len(d.rows) |->
                       [c \in ColunasNecessarias |->
                           IF c \in d.cols THEN d.rows[i][c] ELSE NaN]]
    IN  DataFrame(df.cols \cup novo.cols, fill(df) \o fill(novo))

\* novo_registro of formulario_adicionar for form input e = <<data, valor,
\* categoria, descricao>>.
NovoRegistro(e) ==
    DataFrame(ColunasNecessarias, <<Linha(Date(e[1]), Num(e[2]), Str(e[3]), Str(e[4]))>>)


\* df_atualizado of formulario_adicionar
DfAtualizadoAdicionar(df, e) == Concat(df, NovoRegistro(e))

\* "Excluir registros" cannot be reached when sorted(df['Categoria'].unique())
\* raises: a missing category (NaN) cannot be ordered against a str.
CategoriasOrdenaveis(df) ==
    ~(\E i, j \in 1..Len(df.rows) :
          df.rows[i].Categoria.k = "nan" /\ df.rows[j].Categoria.k = "str")

Todas == Str("Todas")

\* The options of the category selectbox.
OpcoesCategoria(df) == {Todas} \cup {df.rows[i].Categoria : i \in 1..Len(df.rows)}

\* The index of df_filtrado: the rows of df the two filters keep.
IndiceFiltrado(df, categoria_filtro, data_inicio, data_fim) ==
    {i \in 1..Len(df.rows) :
        /\ categoria_filtro # Todas =>
              (df.rows[i].Categoria.k # "nan" /\ df.rows[i].Categoria = categoria_filtro)
        /\ df.rows[i].Data.n >= data_inicio
        /\ df.rows[i].Data.n <= data_fim}

\* df.drop(indices).reset_index(drop=True)
Drop(df, indices) ==
    DataFrame(df.cols, SelectRows(df.rows, (1..Len(df.rows)) \ indices))

DfAtualizadoExcluirDoFiltrado(df, filtrado, indices_selecionados) ==
    DataFrame(df.cols, SelectRows(df.rows, filtrado \ indices_selecionados))

\* df_atualizado of gerenciar_dados: the selected rows are dropped from df, the
\* whole ledger, not from df_filtrado.
DfAtualizadoExcluir(df, filtrado, indices_selecionados) ==
    Drop(df, indices_selecionados)

---------------------------------------------------------------------------
(* Inputs                                                                  *)

\* The longest ledger handed to salvar_dados or kept in a file of Spec.
MaxStore == 1

\* The longest ledger of SpecGerenciar.
MaxLinhas == 3

\* The longest ledger of SpecUI.
MaxSessao == 2

SeqsAte(S, n) == UNION {[1..k -> S] : k \in 0..n}

\* Raw rows a caller may hand to salvar_dados: a valid one with an empty
\* description, a negative amount, an unparseable date, a non-numeric amount.
LinhaValida     == Linha(Ts(20240105), Num(10), Str("Freelance"), Str(""))
LinhaNegativa   == Linha(Ts(20240105), Num(-500), Str("Outros"), Str("estorno"))
LinhaDataRuim   == Linha(Str("31/02/2024"), Num(10), Str("Outros"), Str("estorno"))
LinhaValorRuim  == Linha(Str("2024-01-05"), Str("abc"), Str("Outros"), Str("estorno"))

LinhasAmostra == {LinhaValida, LinhaNegativa, LinhaDataRuim, LinhaValorRuim}

\* The ledgers a caller hands to salvar_dados.
Entradas ==
    {DataFrame(ColunasNecessarias, rows) :
        rows \in SeqsAte(LinhasAmostra, 1) \cup {<<LinhaValida, LinhaNegativa>>}}

\* What the form of formulario_adicionar can submit: <<data, valor, categoria,
\* descricao>>, valor >= 0.01 (min_value of the number input).
FormularioMinimo == {<<20240105, 10, "Freelance", "">>}

Formulario == FormularioMinimo \cup {<<20240120, 20, "Outros", "bonus">>}

\* The dates the two date inputs of gerenciar_dados are set to.
DiasFiltro == {20240105, 20240120}

---------------------------------------------------------------------------
(* GerenciadorUsuarios and the login state of a session                    *)

\* hashlib.sha256(senha.encode()).hexdigest(): distinct passwords have
\* distinct digests.
HashSenha(senha) == <<"sha256", senha>>

\* ultimo_login of a user who never logged in.
None == "None"

\* A record of the user store.
Usuario(senha, nome_completo, ultimo_login) ==
    [senha |-> HashSenha(senha), nome_completo |-> nome_completo,
     ultimo_login |-> ultimo_login]

\* The user store with the accounts of the users of the model.
UsuariosIniciais ==
    [u \in Usuarios |->
        IF u = "ana" THEN Usuario("ana123", "Ana Lima", None)
                     ELSE Usuario("bob456", "Bob Reis", None)]

\* The keys of st.session_state that login sets and logout deletes.
ChavesDeLogin == {"logado", "usuario_atual", "nome_completo"}

\* st.session_state with no login.
SessaoVazia == [k \in {} |-> ""]

\* st.session_state after a login of nome_usuario, found in user store us.
SessaoAutenticada(nome_usuario, us) ==
    [k \in ChavesDeLogin |->
        CASE k = "logado"        -> "True"
          [] k = "usuario_atual" -> nome_usuario
          [] OTHER               -> us[nome_usuario].nome_completo]

\* st.session_state.get('logado', False)
Logado(ss) == "logado" \in DOMAIN ss /\ ss["logado"] = "True"

---------------------------------------------------------------------------
(* State                                                                   *)

SemFiltro == [cat |-> Todas, inicio |-> 0, fim |-> 0, sel |-> {}]

Feito(op, s, u, ret, arg, res, filtro) ==
    [op |-> op, sess |-> s, user |-> u, ret |-> ret, arg |-> arg, res |-> res,
     filtro |-> filtro]

SemEscrita == [ativo |-> FALSE, user |-> "", antes |-> DataFrameVazio,
               alvo |-> DataFrameVazio, depois |-> DataFrameVazio, escritas |-> 0]

Init ==
    /\ fs = <<>>
    /\ last = Feito("inicio", "", "", TRUE, DataFrameVazio, DataFrameVazio, SemFiltro)
    /\ cache = [s \in Sessoes |-> DataFrameVazio]
    /\ esperado = [u \in Usuarios |-> <<>>]
    /\ wr = SemEscrita
    /\ entrada = DataFrameVazio
    /\ saida = <<>>
    /\ session_state = [s \in Sessoes |-> SessaoAutenticada(UsuarioAtual(s), UsuariosIniciais)]
    /\ usuarios = UsuariosIniciais

---------------------------------------------------------------------------
(* The store, called directly                                              *)

\* salvar_dados(u, df)
Salvar(u, df) ==
    /\ fs' = SalvarDados(fs, u, df)
    /\ last' = Feito("salvar", "", u, SalvarOk(df), df, DataFrameVazio, SemFiltro)
    /\ UNCHANGED <<cache, esperado, wr, entrada, saida, session_state, usuarios>>

\* carregar_dados(u)
Carregar(u) ==
    /\ last' = Feito("carregar", "", u, TRUE, DataFrameVazio, CarregarDados(fs, u), SemFiltro)
    /\ UNCHANGED <<fs, cache, esperado, wr, entrada, saida, session_state, usuarios>>

\* The Backup button of the sidebar: backup_dados(usuario_atual)
Backup(s, timestamp) ==
    LET u == UsuarioAtual(s)
    IN  /\ fs' = BackupDados(fs, u, timestamp)
        /\ last' = Feito("backup", s, u, BackupOk(fs, u), DataFrameVazio, DataFrameVazio, SemFiltro)
        /\ UNCHANGED <<cache, esperado, wr, entrada, saida, session_state, usuarios>>

---------------------------------------------------------------------------
(* The handlers of the main screen.  One action is one script run: the     *)
(* load of tela_principal, the handler of the widget that was used, and    *)
(* the save.                                                               *)

\* formulario_adicionar with the form submitted holding e; the ledger has
\* fewer than max rows.
AdicionarNucleo(s, e, max) ==
    \E df \in {DfDaExecucao(fs, s)} :
    \E df_atualizado \in {DfAtualizadoAdicionar(df, e)} :
        /\ Len(df.rows) < max
        /\ e[2] > 0
        /\ fs' = SalvarDados(fs, UsuarioAtual(s), df_atualizado)
        /\ last' = Feito("adicionar", s, UsuarioAtual(s), SalvarOk(df_atualizado),
                         NovoRegistro(e), DataFrameVazio, SemFiltro)

\* gerenciar_dados with the two filters set, the rows indices_selecionados of
\* df_filtrado selected and "Excluir Selecionados" pressed (the button is
\* disabled while nothing is selected).  The function returns early on an empty
\* ledger and shows no delete section when df_filtrado is empty.
ExcluirNucleo(s) ==
    \E df \in {DfDaExecucao(fs, s)} :
        /\ ~Empty(df)
        /\ CategoriasOrdenaveis(df)
        /\ \E categoria_filtro \in OpcoesCategoria(df), data_inicio, data_fim \in DiasFiltro :
           \E filtrado \in {IndiceFiltrado(df, categoria_filtro, data_inicio, data_fim)} :
           \E indices_selecionados \in (SUBSET filtrado) \ {{}} :
           \E df_atualizado \in {DfAtualizadoExcluir(df, filtrado, indices_selecionados)} :
               /\ fs' = SalvarDados(fs, UsuarioAtual(s), df_atualizado)
               /\ last' = Feito("excluir", s, UsuarioAtual(s), SalvarOk(df_atualizado),
                                DataFrameVazio, DataFrameVazio,
                                [cat |-> categoria_filtro, inicio |-> data_inicio,
                                 fim |-> data_fim, sel |-> indices_selecionados])

Adicionar(s, e) ==
    /\ AdicionarNucleo(s, e, MaxStore)
    /\ UNCHANGED <<cache, esperado, wr, entrada, saida, session_state, usuarios>>

Excluir(s) ==
    /\ ExcluirNucleo(s)
    /\ UNCHANGED <<cache, esperado, wr, entrada, saida, session_state, usuarios>>

Next ==
    \/ \E u \in Usuarios, df \in Entradas : Salvar(u, df)
    \/ \E u \in Usuarios : Carregar(u)
    \/ \E s \in Sessoes, t \in Timestamps : Backup(s, t)
    \/ \E s \in Sessoes, e \in FormularioMinimo : Adicionar(s, e)
    \/ \E s \in Sessoes : Excluir(s)

Spec == Init /\ [][Next]_vars

---------------------------------------------------------------------------
(* The main screen of one session: adding records and deleting them from a *)
(* filtered view.                                                          *)

AdicionarGerenciar(s, e) ==
    /\ AdicionarNucleo(s, e, MaxLinhas)
    /\ UNCHANGED <<cache, esperado, wr, entrada, saida, session_state, usuarios>>

NextGerenciar ==
    \/ \E e \in Formulario : AdicionarGerenciar("s1", e)
    \/ Excluir("s1")

SpecGerenciar == Init /\ [][NextGerenciar]_vars

---------------------------------------------------------------------------
(* The main screen with its sessions: two sessions of one user.  cache[s]  *)
(* is the df of the latest script run of s (a successful save ends in      *)
(* st.rerun(), which loads again); esperado[u] lists what was added and    *)
(* not deleted since.                                                      *)

SessoesUI == {s \in Sessoes : UsuarioAtual(s) = "ana"}

AdicionarUI(s, e) ==
    /\ AdicionarNucleo(s, e, MaxSessao)
    /\ cache' = [cache EXCEPT ![s] = DfDaExecucao(fs', s)]
    /\ esperado' = [esperado EXCEPT ![UsuarioAtual(s)] =
                        IF last'.ret THEN Append(@, e) ELSE @]
    /\ UNCHANGED <<wr, entrada, saida, session_state, usuarios>>

ExcluirUI(s) ==
    /\ ExcluirNucleo(s)
    /\ cache' = [cache EXCEPT ![s] = DfDaExecucao(fs', s)]
    /\ esperado' = [esperado EXCEPT ![UsuarioAtual(s)] =
                        IF last'.ret
                        THEN SelectRows(@, (1..Len(@)) \ last'.filtro.sel)
                        ELSE @]
    /\ UNCHANGED <<wr, entrada, saida, session_state, usuarios>>

\* The "Atualizar Dados" button: st.rerun()
AtualizarUI(s) ==
    /\ cache' = [cache EXCEPT ![s] = DfDaExecucao(fs, s)]
    /\ last' = Feito("atualizar", s, UsuarioAtual(s), TRUE, DataFrameVazio,
                     DataFrameVazio, SemFiltro)
    /\ UNCHANGED <<fs, esperado, wr, entrada, saida, session_state, usuarios>>

NextUI ==
    \/ \E s \in SessoesUI, e \in Formulario : AdicionarUI(s, e)
    \/ \E s \in SessoesUI : ExcluirUI(s)
    \/ \E s \in SessoesUI : AtualizarUI(s)

SpecUI == Init /\ [][NextUI]_vars

---------------------------------------------------------------------------
(* A save in steps, with loads in between.  df.to_csv(caminho) opens the   *)
(* ledger file itself for writing, which empties it, writes the header and *)
(* the rows through a buffer, and closes it; other sessions run in other   *)
(* threads and may load the same file at any point.  A flush of the buffer *)
(* is taken to end at the end of a row.                                    *)

\* salvar_dados(u, df) up to the open() inside to_csv.
SalvarAbrir(u, df) ==
    /\ ~wr.ativo
    /\ SalvarOk(df)
    /\ wr' = [ativo |-> TRUE, user |-> u, antes |-> CarregarDados(fs, u),
              alvo |-> LimparParaSalvar(df),
              depois |-> CarregarDados(SalvarDados(fs, u, df), u),
              escritas |-> 0]
    /\ fs' = Gravar(fs, GetCaminhoRendimentos(u), ArquivoZero)
    /\ last' = Feito("abrir", "", u, TRUE, df, DataFrameVazio, SemFiltro)
    /\ UNCHANGED <<cache, esperado, entrada, saida, session_state, usuarios>>

\* The buffer is flushed: the file holds the header and the first k rows.
SalvarEscrever(k) ==
    /\ wr.ativo
    /\ k >= wr.escritas
    /\ k < Len(wr.alvo.rows)
    /\ k > wr.escritas \/ fs[GetCaminhoRendimentos(wr.user)].zero
    /\ wr' = [wr EXCEPT !.escritas = k]
    /\ fs' = Gravar(fs, GetCaminhoRendimentos(wr.user),
                    ArquivoCsv(wr.alvo.cols, SubSeq(ToCsvRows(wr.alvo), 1, k)))
    /\ last' = Feito("escrever", "", wr.user, TRUE, DataFrameVazio, DataFrameVazio, SemFiltro)
    /\ UNCHANGED <<cache, esperado, entrada, saida, session_state, usuarios>>

\* The file is closed, everything is written, and salvar_dados returns True.
SalvarFechar ==
    /\ wr.ativo
    /\ wr' = SemEscrita
    /\ fs' = Gravar(fs, GetCaminhoRendimentos(wr.user), ToCsv(wr.alvo))
    /\ last' = Feito("salvar", "", wr.user, TRUE, DataFrameVazio, DataFrameVazio, SemFiltro)
    /\ UNCHANGED <<cache, esperado, entrada, saida, session_state, usuarios>>

\* carregar_dados(u) in another session.
CarregarConcorrente(u) ==
    /\ last' = Feito("carregar", "", u, TRUE, DataFrameVazio, CarregarDados(fs, u), SemFiltro)
    /\ UNCHANGED <<fs, cache, esperado, wr, entrada, saida, session_state, usuarios>>

NextConc ==
    \/ \E u \in Usuarios, df \in Entradas : SalvarAbrir(u, df)
    \/ \E k \in 0..MaxStore : SalvarEscrever(k)
    \/ SalvarFechar
    \/ \E u \in Usuarios : CarregarConcorrente(u)

SpecConc == Init /\ [][NextConc]_vars

\* C3: a load that runs while a save of the same user's ledger is writing
\* returns the whole ledger as it was before the save or as it is after it.
C3_CarregarNaoVeEscritaParcial ==
    (last.op = "carregar" /\ wr.ativo /\ wr.user = last.user)
        => last.res \in {wr.antes, wr.depois}

---------------------------------------------------------------------------
(* Validation and analysis of one raw DataFrame                            *)

\* The longest raw DataFrame of SpecVal.
MaxBruto == 3

\* Raw rows: as read from a CSV file, as built in memory, with a datetime.date
\* of another month, and the invalid ones.
LinhaCsv  == Linha(Str("2024-01-05"), Str("0.1"), Str("Freelance"), NaN)
LinhaDia  == Linha(Ts(20240120), Num(20), Str("Outros"), Str("bonus"))
LinhaDia2 == Linha(Ts(20240120), Num(30), Str("Freelance"), Str(""))
LinhaMes  == Linha(Date(20240203), Num(10), Str("Outros"), Str(""))

\* Two records of one day, of 100.00 and 50.00.
LinhaCem       == Linha(Ts(20240105), Num(10000), Str("Freelance"), Str(""))
LinhaCinquenta == Linha(Str("2024-01-05"), Str("50.0"), Str("Outros"), NaN)

LinhasBrutas ==
    {LinhaCsv, LinhaDia, LinhaDia2, LinhaMes, LinhaCem, LinhaCinquenta}
        \cup (LinhasAmostra \ {LinhaValida})

Brutas == {DataFrame(ColunasNecessarias, rows) : rows \in SeqsAte(LinhasBrutas, MaxBruto)}

InitVal ==
    /\ fs = <<>>
    /\ last = Feito("inicio", "", "", TRUE, DataFrameVazio, DataFrameVazio, SemFiltro)
    /\ cache = [s \in Sessoes |-> DataFrameVazio]
    /\ esperado = [u \in Usuarios |-> <<>>]
    /\ wr = SemEscrita
    /\ entrada \in Brutas
    /\ saida = <<>>
    /\ session_state = [s \in Sessoes |-> SessaoAutenticada(UsuarioAtual(s), UsuariosIniciais)]
    /\ usuarios = UsuariosIniciais

\* df = validar_dataframe(df) of tela_principal.
Validar ==
    /\ saida = <<>>
    /\ saida' = <<ValidarDataframe(entrada)>>
    /\ UNCHANGED <<fs, last, cache, esperado, wr, entrada, session_state, usuarios>>

\* validar_dataframe on its own result.
Revalidar ==
    /\ Len(saida) = 1
    /\ saida' = Append(saida, ValidarDataframe(saida[1]))
    /\ UNCHANGED <<fs, last, cache, esperado, wr, entrada, session_state, usuarios>>

\* analises_avancadas(df) and tendencia_mensal(df) on the validated ledger.
Analisar ==
    /\ Len(saida) = 2
    /\ ~Empty(saida[1])
    /\ saida' = Append(saida, [stats |-> CalcularEstatisticas(saida[1]),
                               df_temporal |-> DfTemporal(saida[1]),
                               df_mensal |-> DfMensal(saida[1])])
    /\ UNCHANGED <<fs, last, cache, esperado, wr, entrada, session_state, usuarios>>

NextVal == Validar \/ Revalidar \/ Analisar

SpecVal == InitVal /\ [][NextVal]_vars

\* C7: validating a validated ledger changes nothing and drops no row.
C7_ValidarIdempotente ==
    Len(saida) >= 2 =>
        /\ saida[2] = saida[1]
        /\ Len(saida[1].rows) - Len(saida[2].rows) = 0

\* C7 witness: the first validation dropped rows and kept rows, and the
\* second has run.
C7_Witness ==
    /\ Len(saida) >= 2
    /\ Len(saida[1].rows) > 0
    /\ Len(saida[1].rows) < Len(entrada.rows)

\* The Valor column of a sequence of buckets.
Totais(buckets) == [j \in 1..Len(buckets) |-> buckets[j].Valor]

\* C9: the daily totals add up to the ledger's total, and so do the monthly
\* totals.
C9_AgregacaoConservaTotal ==
    Len(saida) >= 3 =>
        /\ Sum(Totais(saida[3].df_temporal)) = saida[3].stats.total_valor
        /\ Sum(Totais(saida[3].df_mensal)) = saida[3].stats.total_valor

---------------------------------------------------------------------------
(* Saves that fail.  salvar_dados catches every exception, shows it with   *)
(* st.error and returns False.  An OSError can come from os.makedirs, from *)
(* the open() inside to_csv, or from a write to the opened file; df['Data']*)
(* raises KeyError when the column is missing.                             *)

Falhas == {"nenhuma", "makedirs", "open", "write"}

\* Whether salvar_dados(., df) returns True when the failure `falha` occurs.
SalvarOkIO(df, falha) == falha = "nenhuma" /\ SalvarOk(df)

\* The file as a failed write leaves it, `linhas` lines having reached the
\* disk: nothing, or the header and the first rows.
ArquivoParcial(df, linhas) ==
    IF linhas = 0
    THEN ArquivoZero
    ELSE ArquivoCsv(df.cols, SubSeq(ToCsvRows(df), 1, linhas - 1))

\* The file system after salvar_dados(nome_usuario, df) with failure `falha`.
SalvarDadosIO(f, nome_usuario, df, falha, linhas) ==
    IF falha = "makedirs" \/ ~SalvarOk(df) \/ falha = "open"
    THEN f
    ELSE IF falha = "write"
         THEN Gravar(f, GetCaminhoRendimentos(nome_usuario),
                     ArquivoParcial(LimparParaSalvar(df), linhas))
         ELSE SalvarDados(f, nome_usuario, df)

\* What st.error shows during a run whose save returned ok.
Mensagens(ok, do_handler) ==
    IF ok THEN <<>> ELSE <<"Erro ao salvar dados", do_handler>>

\* A ledger without its Data column.
EntradaSemData == DataFrame(ColunasNecessarias \ {"Data"}, <<LinhaValida>>)

EntradasIO == Entradas \cup {EntradaSemData}

\* salvar_dados(u, df)
SalvarIO(u, df, falha, linhas) ==
    /\ linhas <= Len(LimparParaSalvar(df).rows)
    /\ fs' = SalvarDadosIO(fs, u, df, falha, linhas)
    /\ last' = Feito("salvar", "", u, SalvarOkIO(df, falha), df, DataFrameVazio, SemFiltro)
    /\ saida' = IF SalvarOkIO(df, falha) THEN <<>> ELSE <<"Erro ao salvar dados">>
    /\ UNCHANGED <<cache, esperado, wr, entrada, session_state, usuarios>>

\* formulario_adicionar, as AdicionarNucleo, with a save that may fail.
AdicionarIO(s, e, falha, linhas) ==
    \E df \in {DfDaExecucao(fs, s)} :
    \E df_atualizado \in {DfAtualizadoAdicionar(df, e)} :
        /\ Len(df.rows) < MaxStore
        /\ e[2] > 0
        /\ linhas <= Len(LimparParaSalvar(df_atualizado).rows)
        /\ fs' = SalvarDadosIO(fs, UsuarioAtual(s), df_atualizado, falha, linhas)
        /\ last' = Feito("adicionar", s, UsuarioAtual(s), SalvarOkIO(df_atualizado, falha),
                         NovoRegistro(e), DataFrameVazio, SemFiltro)
        /\ saida' = Mensagens(SalvarOkIO(df_atualizado, falha), "Erro ao salvar dados!")
        /\ UNCHANGED <<cache, esperado, wr, entrada, session_state, usuarios>>

\* gerenciar_dados, as ExcluirNucleo, with a save that may fail.
ExcluirIO(s, falha, linhas) ==
    \E df \in {DfDaExecucao(fs, s)} :
        /\ ~Empty(df)
        /\ CategoriasOrdenaveis(df)
        /\ \E categoria_filtro \in OpcoesCategoria(df), data_inicio, data_fim \in DiasFiltro :
           \E filtrado \in {IndiceFiltrado(df, categoria_filtro, data_inicio, data_fim)} :
           \E indices_selecionados \in (SUBSET filtrado) \ {{}} :
           \E df_atualizado \in {DfAtualizadoExcluir(df, filtrado, indices_selecionados)} :
               /\ linhas <= Len(LimparParaSalvar(df_atualizado).rows)
               /\ fs' = SalvarDadosIO(fs, UsuarioAtual(s), df_atualizado, falha, linhas)
               /\ last' = Feito("excluir", s, UsuarioAtual(s),
                                SalvarOkIO(df_atualizado, falha),
                                DataFrameVazio, DataFrameVazio,
                                [cat |-> categoria_filtro, inicio |-> data_inicio,
                                 fim |-> data_fim, sel |-> indices_selecionados])
               /\ saida' = Mensagens(SalvarOkIO(df_atualizado, falha),
                                     "Erro ao excluir registros!")
               /\ UNCHANGED <<cache, esperado, wr, entrada, session_state, usuarios>>

NextIO ==
    \/ \E u \in Usuarios, df \in EntradasIO, falha \in Falhas, linhas \in 0..(MaxStore + 1) :
           SalvarIO(u, df, falha, linhas)
    \/ \E s \in Sessoes, e \in FormularioMinimo, falha \in Falhas, linhas \in 0..(MaxStore + 1) :
           AdicionarIO(s, e, falha, linhas)
    \/ \E s \in Sessoes, falha \in Falhas, linhas \in 0..(MaxStore + 1) :
           ExcluirIO(s, falha, linhas)

SpecIO == Init /\ [][NextIO]_vars

\* C11: a save, add or delete that fails leaves the file system as it was and
\* shows an error.
C11_FalhaNaoMudaArquivo ==
    [][(last'.op \in {"salvar", "adicionar", "excluir"} /\ ~last'.ret)
       => (fs' = fs /\ saida' # <<>>)]_vars

---------------------------------------------------------------------------
(* The add form with any submitted amount.  The number input has           *)
(* min_value=0.01, which the browser enforces; the handler has its own     *)
(* guard, `if enviar and valor > 0`, with no else branch.                  *)

\* Submissions with an amount of zero and a negative one.
FormularioNaoPositivo ==
    {<<20240105, 0, "Freelance", "">>, <<20240120, -500, "Outros", "estorno">>}

FormularioBruto == Formulario \cup FormularioNaoPositivo

\* formulario_adicionar with the form submitted holding e.
AdicionarForm(s, e) ==
    \E df \in {DfDaExecucao(fs, s)} :
    \E df_atualizado \in {DfAtualizadoAdicionar(df, e)} :
        /\ Len(df.rows) < MaxSessao
        /\ IF e[2] > 0
           THEN /\ fs' = SalvarDados(fs, UsuarioAtual(s), df_atualizado)
                /\ last' = Feito("adicionar", s, UsuarioAtual(s), SalvarOk(df_atualizado),
                                 NovoRegistro(e), DataFrameVazio, SemFiltro)
                /\ saida' = Mensagens(SalvarOk(df_atualizado), "Erro ao salvar dados!")
           ELSE /\ fs' = fs
                /\ last' = Feito("adicionar", s, UsuarioAtual(s), FALSE,
                                 NovoRegistro(e), DataFrameVazio, SemFiltro)
                /\ saida' = <<>>
        /\ UNCHANGED <<cache, esperado, wr, entrada, session_state, usuarios>>

NextForm ==
    \/ \E s \in Sessoes, e \in FormularioBruto : AdicionarForm(s, e)
    \/ \E s \in Sessoes : Excluir(s)

SpecForm == Init /\ [][NextForm]_vars

\* C12: an add whose amount is zero or negative leaves the file system as it
\* was and shows an error; a record is saved only when its amount is positive.
C12_AdicionarNaoPositivoFalha ==
    [][last'.op = "adicionar" =>
          /\ last'.arg.rows[1].Valor.n <= 0 => (fs' = fs /\ ~last'.ret /\ saida' # <<>>)
          /\ fs' # fs => last'.arg.rows[1].Valor.n > 0]_vars

RECURSIVE SomaExata(_)
\* The sum of a sequence of numbers, without rounding.
SomaExata(xs) == IF xs = <<>> THEN 0 ELSE xs[1] + SomaExata(Tail(xs))

\* The dates of the rows of ledger df.
DatasDe(df) == {df.rows[i].Data.n : i \in 1..Len(df.rows)}

\* The amounts of the rows of df dated d, as floats, in ledger order.
ValoresDoDia(df, d) ==
    ColunaValor(SelectRows(df.rows, {i \in 1..Len(df.rows) : df.rows[i].Data.n = d}))

\* C13: the daily totals of a validated ledger have one row per date of the
\* ledger, in ascending order of date, and each total is the sum of the
\* amounts of that date (the float nearest to it); 100.00 and 50.00 on
\* 2024-01-05 give one row of 150.00; the ledger itself is left as it was.
C13_DiarioAgrupaPorData ==
    [][(Len(saida) = 2 /\ Len(saida') = 3) =>
          \A ledger \in {saida[1]} : \A diario \in {saida'[3].df_temporal} :
              /\ saida'[1] = ledger
              /\ {diario[j].chave : j \in 1..Len(diario)} = DatasDe(ledger)
              /\ Len(diario) = Cardinality(DatasDe(ledger))
              /\ \A j \in 1..(Len(diario) - 1) : diario[j].chave < diario[j + 1].chave
              /\ \A j \in 1..Len(diario) :
                     diario[j].Valor = Arred(SomaExata(ValoresDoDia(ledger, diario[j].chave)))
              /\ ledger.rows = ConverterTipos(<<LinhaCem, LinhaCinquenta>>)
                     => diario = <<[chave |-> 20240105, Valor |-> 150 * Grade]>>]_vars

---------------------------------------------------------------------------
(* Properties of the store (Spec)                                          *)

\* The rows of the ledger file of u: none when there is no file.
Persistido(f, u) ==
    IF Exists(f, GetCaminhoRendimentos(u)) THEN f[GetCaminhoRendimentos(u)].rows ELSE <<>>

\* A line of a ledger file is valid: its date parses and its amount is a
\* number >= 0.
LinhaTextoValida(r) ==
    /\ ToDatetime(Str(r.Data)).k = "ts"
    /\ ToNumeric(Str(r.Valor)).k = "num"
    /\ ToNumeric(Str(r.Valor)).n >= 0

\* A row of a DataFrame is valid: a date, and a number >= 0.
LinhaValidada(r) == r.Data.k = "ts" /\ r.Valor.k = "num" /\ r.Valor.n >= 0

\* C1: every persisted ledger file holds only valid rows (a parseable date
\* and a numeric amount >= 0), whatever was saved, added or deleted.
C1_ArquivoSoLinhasValidas ==
    \A u \in Usuarios :
        \A i \in 1..Len(Persistido(fs, u)) : LinhaTextoValida(Persistido(fs, u)[i])

\* C2: a save of a non-empty ledger that validation empties fails and leaves
\* the file system as it was.
C2_SalvarTudoInvalidoFalha ==
    [][(/\ last'.op = "salvar"
        /\ ~Empty(last'.arg)
        /\ Empty(ValidarDataframe(last'.arg)))
       => (~last'.ret /\ fs' = fs)]_vars

\* The files of file system f outside the directory of user u.
ForaDoUsuario(f, u) ==
    LET fora == {p \in DOMAIN f : ~(Len(p) = 3 /\ p[1] = PASTA_DADOS /\ p[2] = u)}
    IN  [p \in fora |-> f[p]]

\* C6: distinct users have distinct ledger paths, and an operation for user u
\* (save, load, backup, add, delete) leaves every file outside u's directory,
\* so every other user's ledger, as it was.
C6_IsolamentoEntreUsuarios ==
    [][/\ \A u, v \in Usuarios :
              u # v => GetCaminhoRendimentos(u) # GetCaminhoRendimentos(v)
       /\ ForaDoUsuario(fs', last'.user) = ForaDoUsuario(fs, last'.user)
       /\ \A v \in Usuarios \ {last'.user} :
              /\ Persistido(fs', v) = Persistido(fs, v)
              /\ CarregarDados(fs', v) = CarregarDados(fs, v)]_vars

\* Witness of C6: an operation for ana has just written her ledger while bob
\* has a ledger of his own, with other rows.
C6_Witness ==
    /\ last.user = "ana"
    /\ last.op \in {"salvar", "adicionar", "excluir", "backup"}
    /\ Persistido(fs, "bob") # <<>>
    /\ Persistido(fs, "ana") # <<>>
    /\ Persistido(fs, "ana") # Persistido(fs, "bob")

\* C8: right after a successful save of a ledger L (here: one that validation
\* leaves whole), load returns the rows of L, field by field.
C8_CarregarAposSalvar ==
    (/\ last.op = "salvar"
     /\ last.ret
     /\ ValidarDataframe(last.arg).rows = last.arg.rows)
    => CarregarDados(fs, last.user).rows = last.arg.rows

\* C10: every row carregar_dados returns has a date and a number >= 0, and
\* without a file it returns the empty ledger.
C10_CarregarSoLinhasValidas ==
    last.op = "carregar" =>
        /\ \A i \in 1..Len(last.res.rows) : LinhaValidada(last.res.rows[i])
        /\ ~Exists(fs, GetCaminhoRendimentos(last.user)) => last.res = DataFrameVazio

---------------------------------------------------------------------------
(* Properties of the main screen (SpecUI)                                  *)

\* How often r occurs in sequence rs.
Ocorrencias(rs, r) == Cardinality({i \in 1..Len(rs) : rs[i] = r})

\* C4: a delete from a filtered view removes the selected rows only: of the
\* ledger L the run loaded, the file afterwards holds the rows that are not
\* selected, each as often as L does and in the order of L, so every row the
\* filter did not match is still there.
C4_ExcluirSoRemoveSelecionados ==
    [][last'.op = "excluir" =>
        \A df \in {ValidarDataframe(CarregarDados(fs, last'.user))} :
        \A L \in {ToCsvRows(df)} :
        \A filtrado \in {IndiceFiltrado(df, last'.filtro.cat, last'.filtro.inicio,
                                        last'.filtro.fim)} :
        \A S \in {last'.filtro.sel} :
        \A depois \in {Persistido(fs', last'.user)} :
        \A selecionadas \in {SelectRows(L, S)} :
            /\ S \subseteq filtrado
            /\ last'.ret
            /\ depois = SelectRows(L, (1..Len(L)) \ S)
            /\ \A i \in 1..Len(L) :
                   Ocorrencias(depois, L[i]) =
                       Ocorrencias(L, L[i]) - Ocorrencias(selecionadas, L[i])
            /\ \A i \in (1..Len(L)) \ filtrado : Ocorrencias(depois, L[i]) >= 1]_vars

\* Witness of C4: a delete under a category filter has left in the file a row
\* the filter did not match and a row it matched that was not selected.
C4_Witness ==
    /\ last.op = "excluir"
    /\ last.ret
    /\ last.filtro.cat # Todas
    /\ \E i, j \in 1..Len(Persistido(fs, last.user)) :
           /\ Persistido(fs, last.user)[i].Categoria # last.filtro.cat.s
           /\ Persistido(fs, last.user)[j].Categoria = last.filtro.cat.s

\* The line of the ledger file for a record added through the form.
LinhaDoFormulario(e) ==
    [Data |-> DataTexto(e[1]), Valor |-> ValorTexto(e[2]), Categoria |-> e[3],
     Descricao |-> e[4]]

\* C5: after any sequence of adds and deletes by the sessions of a user, the
\* persisted ledger holds exactly the records added and not deleted since,
\* once each and in insertion order (the newest last).
C5_LedgerGuardaOQueFoiAdicionado ==
    \A u \in Usuarios :
        Persistido(fs, u) = [i \in 1..Len(esperado[u]) |-> LinhaDoFormulario(esperado[u][i])]

\* Witness of C5: session s2 has just added a record after session s1 added
\* one; both are persisted, and s1 still shows the ledger it loaded before.
C5_Witness ==
    /\ last.op = "adicionar"
    /\ last.sess = "s2"
    /\ last.ret
    /\ Len(esperado["ana"]) >= 2
    /\ cache["s1"].rows # <<>>
    /\ Len(cache["s1"].rows) < Len(Persistido(fs, "ana"))

---------------------------------------------------------------------------
(* A legacy ledger: a file with the columns Data and Valor only, opened in *)
(* the main screen and added to.                                           *)

\* The longest legacy file.
MaxLegado == 2

\* A line of a legacy file.
LinhaLegado(d, v) == [Data |-> d, Valor |-> v, Categoria |-> "", Descricao |-> ""]

LinhasLegado ==
    {LinhaLegado("2024-01-05", "0.1"), LinhaLegado("2024-01-20", "0.2"),
     LinhaLegado("31/02/2024", "0.1"), LinhaLegado("2024-01-05", "abc"),
     LinhaLegado("2024-01-05", "-5.0"), LinhaLegado("2024-01-20", "")}

ArquivosLegado ==
    {ArquivoCsv({"Data", "Valor"}, rows) : rows \in SeqsAte(LinhasLegado, MaxLegado)}

\* The valid lines of legacy file arq, in order, as <<data, valor, categoria,
\* descricao>>.
LegadoValidas(arq) ==
    LET validas == SelectRows(arq.rows,
                              {i \in 1..Len(arq.rows) : LinhaTextoValida(arq.rows[i])})
    IN  [i \in 1..Len(validas) |->
            <<ToDatetime(Str(validas[i].Data)).n, ToNumeric(Str(validas[i].Valor)).n, "", "">>]

InitLegado ==
    /\ \E arq \in ArquivosLegado :
           /\ fs = Gravar(<<>>, GetCaminhoRendimentos("ana"), arq)
           /\ esperado = [u \in Usuarios |-> IF u = "ana" THEN LegadoValidas(arq) ELSE <<>>]
    /\ last = Feito("inicio", "", "", TRUE, DataFrameVazio, DataFrameVazio, SemFiltro)
    /\ cache = [s \in Sessoes |-> DataFrameVazio]
    /\ wr = SemEscrita
    /\ entrada = DataFrameVazio
    /\ saida = <<>>
    /\ session_state = [s \in Sessoes |-> SessaoAutenticada(UsuarioAtual(s), UsuariosIniciais)]
    /\ usuarios = UsuariosIniciais

\* formulario_adicionar on the ledger that was legacy.
AdicionarLegado(s, e) ==
    /\ AdicionarNucleo(s, e, MaxLegado + 1)
    /\ cache' = [cache EXCEPT ![s] = DfDaExecucao(fs', s)]
    /\ esperado' = [esperado EXCEPT ![UsuarioAtual(s)] =
                        IF last'.ret THEN Append(@, e) ELSE @]
    /\ UNCHANGED <<wr, entrada, saida, session_state, usuarios>>

NextLegado ==
    \/ \E e \in Formulario : AdicionarLegado("s1", e)
    \/ AtualizarUI("s1")

SpecLegado == InitLegado /\ [][NextLegado]_vars

\* C14: a ledger that was legacy (columns Data and Valor) loads and validates
\* to all four columns and to exactly its valid rows, in order, followed by
\* what was added since; while the file is still legacy the two synthesized
\* columns hold the default ''; and this stays so after saves and reloads.
C14_LegadoContinuaLegivel ==
    \A df \in {DfDaExecucao(fs, "s1")} :
        /\ df.cols = ColunasNecessarias
        /\ Len(df.rows) = Len(esperado["ana"])
        /\ \A i \in 1..Len(df.rows) :
               /\ df.rows[i].Data = Ts(esperado["ana"][i][1])
               /\ df.rows[i].Valor = Num(esperado["ana"][i][2])
               /\ fs[GetCaminhoRendimentos("ana")].cols = {"Data", "Valor"}
                     => (df.rows[i].Categoria = Str("") /\ df.rows[i].Descricao = Str(""))

\* C14 witness: a legacy file with a valid and an invalid line has been
\* opened, a record added to it and saved, and the ledger loaded again.
C14_Witness ==
    /\ last.op = "atualizar"
    /\ fs[GetCaminhoRendimentos("ana")].cols = ColunasNecessarias
    /\ Len(esperado["ana"]) = 2
    /\ esperado["ana"][1][3] = ""
    /\ Len(cache["s1"].rows) = 2

---------------------------------------------------------------------------
(* Login, registration and logout of the sessions                          *)

\* The sessions that log in and out.
SessoesLogin == {"s1", "s2"}

\* What is typed into the forms of tela_login.
NomesDigitados == {"", "ana", "eve", "jo"}
SenhasDigitadas == {"", "ana123", "eve789", "curta"}
NomesCompletosDigitados == {"", "Eve Paz"}

\* datetime.now().isoformat()
Agora == {"2024-03-01T12:00:00"}

\* validar_nome_usuario(nome)[0]: 3 to 20 characters, letters, digits and '_'.
ValidarNomeUsuario(nome) ==
    CASE nome = ""     -> FALSE
      [] nome = "jo"   -> FALSE
      [] OTHER         -> TRUE

\* validar_senha(senha)[0]: 6 to 50 characters, with a letter and a digit.
ValidarSenha(senha) ==
    CASE senha = ""      -> FALSE
      [] senha = "curta" -> FALSE
      [] OTHER           -> TRUE

SenhaConfereSempre(us, nome_usuario, senha) == TRUE

\* usuarios[nome_usuario]['senha'] == GerenciadorUsuarios.hash_senha(senha)
SenhaConfere(us, nome_usuario, senha) == us[nome_usuario].senha = HashSenha(senha)

\* st.session_state ss with the keys of `novas` set.
Definir(ss, novas) ==
    [k \in (DOMAIN ss) \cup (DOMAIN novas) |-> IF k \in DOMAIN novas THEN novas[k] ELSE ss[k]]

\* st.session_state ss with the keys in `chaves` deleted.
Apagar(ss, chaves) == [k \in (DOMAIN ss) \ chaves |-> ss[k]]

InitLogin ==
    /\ fs = <<>>
    /\ last = Feito("inicio", "", "", TRUE, DataFrameVazio, DataFrameVazio, SemFiltro)
    /\ cache = [s \in Sessoes |-> DataFrameVazio]
    /\ esperado = [u \in Usuarios |-> <<>>]
    /\ wr = SemEscrita
    /\ entrada = DataFrameVazio
    /\ saida = <<>>
    /\ session_state = [s \in Sessoes |-> SessaoVazia]
    /\ usuarios = UsuariosIniciais

\* The login form of tela_login submitted in session s.
Login(s, nome_usuario, senha, agora) ==
    \E ok \in {/\ nome_usuario # "" /\ senha # ""
               /\ nome_usuario \in DOMAIN usuarios
               /\ SenhaConfere(usuarios, nome_usuario, senha)} :
        /\ IF ok
           THEN /\ session_state' =
                       [session_state EXCEPT
                           ![s] = Definir(@, SessaoAutenticada(nome_usuario, usuarios))]
                /\ usuarios' = [usuarios EXCEPT ![nome_usuario].ultimo_login = agora]
                /\ saida' = <<>>
           ELSE /\ UNCHANGED <<session_state, usuarios>>
                /\ saida' = IF nome_usuario = "" \/ senha = ""
                            THEN <<"Preencha todos os campos!">>
                            ELSE IF nome_usuario \notin DOMAIN usuarios
                                 THEN <<"Usuário não encontrado!">>
                                 ELSE <<"Senha incorreta!">>
        /\ last' = Feito("login", s, nome_usuario, ok,
                         [nome_usuario |-> nome_usuario, senha |-> senha],
                         DataFrameVazio, SemFiltro)
        /\ UNCHANGED <<fs, cache, esperado, wr, entrada>>

\* The registration form of tela_login submitted in session s.
Cadastro(s, nome_usuario, nome_completo, senha, confirmar_senha, aceitar_termos, agora) ==
    \E erro \in {IF nome_usuario = "" \/ nome_completo = "" \/ senha = "" \/ confirmar_senha = ""
                 THEN "Preencha todos os campos obrigatórios!"
                 ELSE IF ~aceitar_termos THEN "Aceite os termos de uso!"
                 ELSE IF ~ValidarNomeUsuario(nome_usuario) THEN "Nome de usuário"
                 ELSE IF ~ValidarSenha(senha) THEN "Senha"
                 ELSE IF senha # confirmar_senha THEN "Senhas não coincidem!"
                 ELSE IF nome_usuario \in DOMAIN usuarios THEN "Usuário já existe!"
                 ELSE ""} :
        /\ IF erro = ""
           THEN /\ usuarios' = [u \in (DOMAIN usuarios) \cup {nome_usuario} |->
                                   IF u = nome_usuario
                                   THEN Usuario(senha, nome_completo, None)
                                   ELSE usuarios[u]]
                /\ saida' = <<>>
           ELSE /\ usuarios' = usuarios
                /\ saida' = <<erro>>
        /\ last' = Feito("cadastro", s, nome_usuario, erro = "",
                         [nome_usuario |-> nome_usuario, senha |-> senha],
                         DataFrameVazio, SemFiltro)
        /\ UNCHANGED <<fs, cache, esperado, wr, entrada, session_state>>

\* The "Sair" button of the sidebar, which is shown to a logged-in session.
Sair(s) ==
    /\ Logado(session_state[s])
    /\ session_state' = [session_state EXCEPT ![s] = Apagar(@, ChavesDeLogin)]
    /\ last' = Feito("sair", s, session_state[s]["usuario_atual"], TRUE,
                     DataFrameVazio, DataFrameVazio, SemFiltro)
    /\ saida' = <<>>
    /\ UNCHANGED <<fs, cache, esperado, wr, entrada, usuarios>>

NextLogin ==
    \/ \E s \in SessoesLogin, nome_usuario \in NomesDigitados, senha \in SenhasDigitadas,
          agora \in Agora :
           Login(s, nome_usuario, senha, agora)
    \/ \E s \in SessoesLogin, nome_usuario \in NomesDigitados,
          nome_completo \in NomesCompletosDigitados,
          senha, confirmar_senha \in SenhasDigitadas, aceitar_termos \in BOOLEAN,
          agora \in Agora :
           Cadastro(s, nome_usuario, nome_completo, senha, confirmar_senha,
                    aceitar_termos, agora)
    \/ \E s \in SessoesLogin : Sair(s)

SpecLogin == InitLogin /\ [][NextLogin]_vars

\* C15: a session is Unauthenticated (no login key) or Authenticated(u) for a
\* user u of the store; it becomes Authenticated(u) only by a login with the
\* name u of a stored user and the password whose hash is stored for u; a
\* failed login changes neither the sessions nor the user store nor the
\* files; a logout leaves none of logado, usuario_atual and nome_completo.
C15_MaquinaDeEstadosDaSessao ==
    [][/\ \A s \in Sessoes :
              /\ \/ session_state'[s] = SessaoVazia
                 \/ \E u \in DOMAIN usuarios' :
                        session_state'[s] = SessaoAutenticada(u, usuarios')
              /\ (Logado(session_state'[s]) /\ session_state'[s] # session_state[s]) =>
                     /\ last'.op = "login"
                     /\ last'.sess = s
                     /\ last'.arg.nome_usuario \in DOMAIN usuarios
                     /\ usuarios[last'.arg.nome_usuario].senha = HashSenha(last'.arg.senha)
                     /\ session_state'[s]["usuario_atual"] = last'.arg.nome_usuario
       /\ (last'.op = "login" /\ ~last'.ret) =>
              (session_state' = session_state /\ usuarios' = usuarios /\ fs' = fs)
       /\ last'.op = "sair" =>
              /\ Logado(session_state[last'.sess])
              /\ (DOMAIN session_state'[last'.sess]) \cap ChavesDeLogin = {}]_vars

\* C15 witness: a session that logged in has logged out and holds no login
\* key, while another session is still logged in and a user has registered.
C15_Witness ==
    /\ last.op = "sair"
    /\ session_state[last.sess] = SessaoVazia
    /\ usuarios[last.user].ultimo_login # None
    /\ \E s \in Sessoes : Logado(session_state[s]) /\ session_state[s]["usuario_atual"] = "eve"

=============================================================================
